---- MODULE Spec2Model ----
(***************************************************************************)
(* Pipeline nodes of nodes/audio.py: Mp3ToWav, ResampleWav, ShellCommand,  *)
(* OpenSmileRunner, SplitSegments, PraatRunner and KaldiASR.               *)
(*                                                                         *)
(* One behaviour follows one node and one input file through repeated      *)
(* calls of the node's run(), interleaved with changes of the input file   *)
(* and removals of the output file made by the environment.  Each run() is *)
(* one action; what the run did (log lines, external invocations, file     *)
(* writes, emissions, whether it returned or raised) is kept in `last`.    *)
(*                                                                         *)
(* Texts are sequences of strings.  A path is <<dir, stem, ext>>.  A log   *)
(* message and a command line are the sequences of their words, a path     *)
(* contributing its three parts.  The recognizer's stderr is a sequence of *)
(* characters, "U" standing for the literal utterance-id1 and "E" for the  *)
(* literal ERROR.                                                          *)
(***************************************************************************)
EXTENDS Integers, Sequences, FiniteSets, TLC

VARIABLES stage, in_file, in_mtime, out, clock, runs, changed, err, segments, last

vars == <<stage, in_file, in_mtime, out, clock, runs, changed, err, segments, last>>

(***************************************************************************)
(* Bounds of the model.                                                    *)
(***************************************************************************)
MaxRuns == 2
MaxClock == 1
MaxErrLen == 4
MaxSegments == 2

(***************************************************************************)
(* Sequences.                                                              *)
(***************************************************************************)
RECURSIVE Flatten(_)
Flatten(ss) == IF ss = <<>> THEN <<>> ELSE Head(ss) \o Flatten(Tail(ss))

\* sub occurs in s as a run of consecutive elements
Contains(s, sub) ==
    \E i \in 0..(Len(s) - Len(sub)) : \A j \in 1..Len(sub) : s[i + j] = sub[j]

StartsWith(s, pre) ==
    Len(s) >= Len(pre) /\ \A j \in 1..Len(pre) : s[j] = pre[j]

EndsWith(s, suf) ==
    /\ Len(s) >= Len(suf)
    /\ \A j \in 1..Len(suf) : s[Len(s) - Len(suf) + j] = suf[j]

Drop(s, n) == SubSeq(s, n + 1, Len(s))

SeqsUpTo(S, n) == UNION {[1..k -> S] : k \in 0..n}

(***************************************************************************)
(* The nodes, the input files and the files on disk.                       *)
(***************************************************************************)
ToolStages ==
    {"Mp3ToWav", "ResampleWav", "ShellCommand", "OpenSmileRunner", "PraatRunner", "KaldiASR"}

Stages == ToolStages \cup {"SplitSegments"}

Inputs == {<<"in", "a", "mp3">>, <<"in", "a", "wav">>}

Statuses == {0, 1}

IntStr(n) == <<"0", "1", "2">>[n + 1]

\* str.endswith("." + ext) on a path
HasExt(path, ext) == path[Len(path)] = ext

\* os.path.abspath
AbsPath(path) == <<"/cwd">> \o path

\* the output file of the node; `by` records which kind of writer left it
NoFile == [exists |-> FALSE, mtime |-> 0, bytes |-> <<>>, by |-> "none"]

FileContents == {<<"x">>, <<"y">>}

\* what an external tool did: its exit status, whether it left a file at the
\* output path, and the bytes it left.  A tool that exits 0 has written its
\* output.
ToolOutcomes ==
    {t \in [res : Statuses, wrote : BOOLEAN, bytes : FileContents] : t.res = 0 => t.wrote}

\* FileOutputNode.derive_new_file_path: the node's own directory, the input's
\* stem, the new extension
derive_new_file_path(path, ext) == <<stage, path[2], ext>>

\* file_utils.should_run
should_run(mtime, o) == ~o.exists \/ mtime > o.mtime

\* the file at the output path after shell_run: the tool's file, or, with
\* stdout redirected to the path, the file the runner opened for it
shell_run_file(o, tool, redirected) ==
    IF tool.wrote \/ redirected
    THEN [exists |-> TRUE, mtime |-> clock, bytes |-> tool.bytes,
          by |-> IF tool.res = 0 THEN "ok" ELSE "failed"]
    ELSE o

(***************************************************************************)
(* What a run leaves behind.                                               *)
(***************************************************************************)
LogEntry(level, kind, msg) == [level |-> level, kind |-> kind, msg |-> msg]

Starting(path) == LogEntry("INFO", "start", <<"Starting">> \o path)

Done(path, o) == LogEntry("INFO", "done", <<"Done">> \o path \o <<"->">> \o o)

Call(cmd, res) == [cmd |-> cmd, res |-> res]

EmitPath(path) == [form |-> "path", paths |-> <<path>>]

EmitList(paths) == [form |-> "list", paths |-> paths]

NoRun ==
    [ran |-> FALSE, outcome |-> "returned", valid |-> TRUE, gate |-> "none",
     log |-> <<>>, calls |-> <<>>, reads |-> 0, mapcalls |-> 0,
     writes |-> <<>>, emitted |-> <<>>]

\* the result of a run: what it did, and the output file after it
Result(obs, o) == [obs |-> obs @@ [NoRun EXCEPT !.ran = TRUE], out |-> o]

(***************************************************************************)
(* Mp3ToWav.run                                                            *)
(***************************************************************************)
\* Mp3ToWav.run without the return after the validation failure is logged
Mp3ToWav_run_NoReturn(mp3_file, tool) ==
    LET wav_file == derive_new_file_path(mp3_file, "wav")
        cmd == <<"lame", "--decode">> \o mp3_file \o wav_file
        invalid == IF HasExt(mp3_file, "mp3") THEN <<>>
                   ELSE <<LogEntry("ERROR", "invalid",
                                   <<"Failed">> \o mp3_file \o <<"Not", "mp3", "file">>)>>
    IN  IF should_run(in_mtime, out)
        THEN Result([valid |-> HasExt(mp3_file, "mp3"), gate |-> "run",
                     calls |-> <<Call(cmd, tool.res)>>,
                     log |-> <<Starting(mp3_file)>> \o invalid
                             \o <<IF tool.res # 0
                                  THEN LogEntry("ERROR", "toolfail",
                                                <<"Failed">> \o mp3_file \o <<"->">> \o wav_file
                                                \o <<"with", "lame", "error", "code", IntStr(tool.res)>>)
                                  ELSE Done(mp3_file, wav_file)>>,
                     emitted |-> IF tool.res # 0 THEN <<>> ELSE <<EmitPath(wav_file)>>],
                    shell_run_file(out, tool, FALSE))
        ELSE Result([valid |-> HasExt(mp3_file, "mp3"), gate |-> "skip",
                     log |-> <<Starting(mp3_file)>> \o invalid,
                     emitted |-> <<EmitPath(wav_file)>>],
                    out)

Mp3ToWav_run(mp3_file, tool) ==
    LET wav_file == derive_new_file_path(mp3_file, "wav")
        cmd == <<"lame", "--decode">> \o mp3_file \o wav_file
    IN  IF ~HasExt(mp3_file, "mp3")
        THEN Result([valid |-> FALSE,
                     log |-> <<Starting(mp3_file),
                               LogEntry("ERROR", "invalid",
                                        <<"Failed">> \o mp3_file \o <<"Not", "mp3", "file">>)>>],
                    out)
        ELSE IF should_run(in_mtime, out)
        THEN IF tool.res # 0
             THEN Result([gate |-> "run", calls |-> <<Call(cmd, tool.res)>>,
                          log |-> <<Starting(mp3_file),
                                    LogEntry("ERROR", "toolfail",
                                             <<"Failed">> \o mp3_file \o <<"->">> \o wav_file
                                             \o <<"with", "lame", "error", "code", IntStr(tool.res)>>)>>],
                         shell_run_file(out, tool, FALSE))
             ELSE Result([gate |-> "run", calls |-> <<Call(cmd, tool.res)>>,
                          log |-> <<Starting(mp3_file), Done(mp3_file, wav_file)>>,
                          emitted |-> <<EmitPath(wav_file)>>],
                         shell_run_file(out, tool, FALSE))
        ELSE Result([gate |-> "skip", log |-> <<Starting(mp3_file)>>,
                     emitted |-> <<EmitPath(wav_file)>>],
                    out)

(***************************************************************************)
(* ResampleWav.setup, ResampleWav.run                                      *)
(***************************************************************************)
new_sr == "16000"

\* ResampleWav.run without the staleness gate: sox runs on every valid input
ResampleWav_run_NoGate(wav_file, tool) ==
    LET new_wav_file == derive_new_file_path(wav_file, "wav")
        cmd == <<"sox">> \o wav_file \o <<"--rate", new_sr>> \o new_wav_file
    IN  IF ~HasExt(wav_file, "wav")
        THEN Result([valid |-> FALSE,
                     log |-> <<Starting(wav_file),
                               LogEntry("ERROR", "invalid",
                                        <<"Failed">> \o wav_file \o <<"Not", "wav", "file">>)>>],
                    out)
        ELSE IF tool.res # 0
        THEN Result([gate |-> "run", calls |-> <<Call(cmd, tool.res)>>,
                     log |-> <<Starting(wav_file),
                               LogEntry("ERROR", "toolfail",
                                        <<"Failed">> \o wav_file \o <<"->">> \o new_wav_file
                                        \o <<"with", "lame", "error", "code", IntStr(tool.res)>>)>>],
                    shell_run_file(out, tool, FALSE))
        ELSE Result([gate |-> "run", calls |-> <<Call(cmd, tool.res)>>,
                     log |-> <<Starting(wav_file), Done(wav_file, new_wav_file)>>,
                     emitted |-> <<EmitPath(new_wav_file)>>],
                    shell_run_file(out, tool, FALSE))

ResampleWav_run(wav_file, tool) ==
    LET new_wav_file == derive_new_file_path(wav_file, "wav")
        cmd == <<"sox">> \o wav_file \o <<"--rate", new_sr>> \o new_wav_file
    IN  IF ~HasExt(wav_file, "wav")
        THEN Result([valid |-> FALSE,
                     log |-> <<Starting(wav_file),
                               LogEntry("ERROR", "invalid",
                                        <<"Failed">> \o wav_file \o <<"Not", "wav", "file">>)>>],
                    out)
        ELSE IF should_run(in_mtime, out)
        THEN IF tool.res # 0
             THEN Result([gate |-> "run", calls |-> <<Call(cmd, tool.res)>>,
                          log |-> <<Starting(wav_file),
                                    LogEntry("ERROR", "toolfail",
                                             <<"Failed">> \o wav_file \o <<"->">> \o new_wav_file
                                             \o <<"with", "lame", "error", "code", IntStr(tool.res)>>)>>],
                         shell_run_file(out, tool, FALSE))
             ELSE Result([gate |-> "run", calls |-> <<Call(cmd, tool.res)>>,
                          log |-> <<Starting(wav_file), Done(wav_file, new_wav_file)>>,
                          emitted |-> <<EmitPath(new_wav_file)>>],
                         shell_run_file(out, tool, FALSE))
        ELSE Result([gate |-> "skip", log |-> <<Starting(wav_file)>>,
                     emitted |-> <<EmitPath(new_wav_file)>>],
                    out)

(***************************************************************************)
(* ShellCommand.setup, ShellCommand.run                                    *)
(***************************************************************************)
command == <<"someCommand", "-i", "{in_file}", "-o", "{out_file}">>

ext == "csv"

\* str.format(in_file=..., out_file=...) on the words of the template
Format(template, i, o) ==
    Flatten([k \in 1..Len(template) |->
                IF template[k] = "{in_file}" THEN i
                ELSE IF template[k] = "{out_file}" THEN o
                ELSE <<template[k]>>])

\* ShellCommand.run without the return after a tool failure is logged
ShellCommand_run_EmitOnFail(path, tool) ==
    LET out_file == derive_new_file_path(path, ext)
        cmd == Format(command, path, out_file)
    IN  IF should_run(in_mtime, out)
        THEN Result([gate |-> "run", calls |-> <<Call(cmd, tool.res)>>,
                     log |-> <<Starting(path)>>
                             \o (IF tool.res # 0
                                 THEN <<LogEntry("ERROR", "toolfail",
                                                 <<"Failed">> \o path \o <<"->">> \o out_file
                                                 \o <<"with", "error", "code", IntStr(tool.res), "cmd:">>
                                                 \o cmd)>>
                                 ELSE <<>>)
                             \o <<Done(path, out_file)>>,
                     emitted |-> <<EmitPath(out_file)>>],
                    shell_run_file(out, tool, FALSE))
        ELSE Result([gate |-> "skip", log |-> <<Starting(path)>>,
                     emitted |-> <<EmitPath(out_file)>>],
                    out)

ShellCommand_run(path, tool) ==
    LET out_file == derive_new_file_path(path, ext)
        cmd == Format(command, path, out_file)
    IN  IF should_run(in_mtime, out)
        THEN IF tool.res # 0
             THEN Result([gate |-> "run", calls |-> <<Call(cmd, tool.res)>>,
                          log |-> <<Starting(path),
                                    LogEntry("ERROR", "toolfail",
                                             <<"Failed">> \o path \o <<"->">> \o out_file
                                             \o <<"with", "error", "code", IntStr(tool.res), "cmd:">>
                                             \o cmd)>>],
                         shell_run_file(out, tool, FALSE))
             ELSE Result([gate |-> "run", calls |-> <<Call(cmd, tool.res)>>,
                          log |-> <<Starting(path), Done(path, out_file)>>,
                          emitted |-> <<EmitPath(out_file)>>],
                         shell_run_file(out, tool, FALSE))
        ELSE Result([gate |-> "skip", log |-> <<Starting(path)>>,
                     emitted |-> <<EmitPath(out_file)>>],
                    out)

(***************************************************************************)
(* OpenSmileRunner.setup, OpenSmileRunner.run                              *)
(***************************************************************************)
conf_file == <<"IS10_paraling.conf">>

extra_flags == <<"-nologfile", "-noconsoleoutput", "-appendcsv", "0">>

out_flag == "-csvoutput"

out_ext == "csv"

opensmile_exec == <<"SMILExtract">>

OpenSmileRunner_run(path, tool) ==
    LET out_file == derive_new_file_path(path, out_ext)
        cmd == opensmile_exec \o <<"-C">> \o conf_file \o <<"-I">> \o path
               \o <<out_flag>> \o out_file \o extra_flags
    IN  IF should_run(in_mtime, out)
        THEN IF tool.res # 0
             THEN Result([gate |-> "run", calls |-> <<Call(cmd, tool.res)>>,
                          log |-> <<Starting(path),
                                    LogEntry("ERROR", "toolfail",
                                             <<"Failed">> \o path \o <<"->">> \o out_file
                                             \o <<"with", "SmileExtract", "error", "code",
                                                  IntStr(tool.res), "cmd:">>
                                             \o cmd)>>],
                         shell_run_file(out, tool, FALSE))
             ELSE Result([gate |-> "run", calls |-> <<Call(cmd, tool.res)>>,
                          log |-> <<Starting(path), Done(path, out_file)>>,
                          emitted |-> <<EmitList(<<out_file>>)>>],
                         shell_run_file(out, tool, FALSE))
        ELSE Result([gate |-> "skip", log |-> <<Starting(path)>>,
                     emitted |-> <<EmitList(<<out_file>>)>>],
                    out)

(***************************************************************************)
(* PraatRunner.run: the runner opens the output file for the tool's stdout *)
(***************************************************************************)
\* PraatRunner.run that runs praat a second time when the first run failed
PraatRunner_run_Retry(path, tool) ==
    LET out_file == derive_new_file_path(path, "csv")
        cmd == <<"praat", "--run", "scripts/syllable_nuclei_v2.praat">> \o AbsPath(path)
    IN  IF should_run(in_mtime, out)
        THEN IF tool.res # 0
             THEN Result([gate |-> "run",
                          calls |-> <<Call(cmd, tool.res), Call(cmd, tool.res)>>,
                          log |-> <<Starting(path),
                                    LogEntry("ERROR", "toolfail",
                                             <<"Failed">> \o path \o <<"->">> \o out_file
                                             \o <<"with", "error", "code", IntStr(tool.res), "cmd:">>
                                             \o cmd)>>],
                         shell_run_file(out, tool, TRUE))
             ELSE Result([gate |-> "run", calls |-> <<Call(cmd, tool.res)>>,
                          log |-> <<Starting(path), Done(path, out_file)>>,
                          emitted |-> <<EmitList(<<out_file>>)>>],
                         shell_run_file(out, tool, TRUE))
        ELSE Result([gate |-> "skip", log |-> <<Starting(path)>>,
                     emitted |-> <<EmitList(<<out_file>>)>>],
                    out)

PraatRunner_run(path, tool) ==
    LET out_file == derive_new_file_path(path, "csv")
        cmd == <<"praat", "--run", "scripts/syllable_nuclei_v2.praat">> \o AbsPath(path)
    IN  IF should_run(in_mtime, out)
        THEN IF tool.res # 0
             THEN Result([gate |-> "run", calls |-> <<Call(cmd, tool.res)>>,
                          log |-> <<Starting(path),
                                    LogEntry("ERROR", "toolfail",
                                             <<"Failed">> \o path \o <<"->">> \o out_file
                                             \o <<"with", "error", "code", IntStr(tool.res), "cmd:">>
                                             \o cmd)>>],
                         shell_run_file(out, tool, TRUE))
             ELSE Result([gate |-> "run", calls |-> <<Call(cmd, tool.res)>>,
                          log |-> <<Starting(path), Done(path, out_file)>>,
                          emitted |-> <<EmitList(<<out_file>>)>>],
                         shell_run_file(out, tool, TRUE))
        ELSE Result([gate |-> "skip", log |-> <<Starting(path)>>,
                     emitted |-> <<EmitList(<<out_file>>)>>],
                    out)

(***************************************************************************)
(* SplitSegments.setup, SplitSegments.run                                  *)
(***************************************************************************)
\* sp.read_wave(in_file, first_channel=True): the first channel's samples
original_data == <<"s0", "s1", "s2">>

sr == "16000"

Ranges == {<<0, 1>>, <<1, 3>>}

Names == {"a", "b"}

Annotations == {"", "hello"}

\* what segment_mapping_fn may return for one segment
Descriptors ==
    {<<r[1], r[2], n>> : r \in Ranges, n \in Names}
    \cup {<<r[1], r[2], n, a>> : r \in Ranges, n \in Names, a \in Annotations}
    \cup {<<0, 1>>, <<0, 1, "a", "hello", "x">>}

Min(a, b) == IF a <= b THEN a ELSE b

\* data[start:end] for indices that are not negative
PySlice(data, start, end) == SubSeq(data, Min(start, Len(data)) + 1, Min(end, Len(data)))

\* None is <<>>, a string s is <<s>>; bool(extra_info)
Truthy(extra_info) == extra_info # <<>> /\ extra_info[1] # ""

Write(path, data) == [path |-> path, data |-> data]

\* the loop over the segments, from a run that has done `acc` so far
RECURSIVE SegmentLoop(_, _, _)
SegmentLoop(path, segs, acc) ==
    IF segs = <<>> THEN acc
    ELSE LET segment == Head(segs) IN
         IF Len(segment) \notin {3, 4}
         THEN [acc EXCEPT !.log = Append(@,
                  LogEntry("ERROR", "invalid",
                           <<"Failed">> \o path \o <<"Segment", "length", "must", "be", "3", "or", "4">>))]
         ELSE LET start == segment[1]
                  end == segment[2]
                  seg_name == segment[3]
                  extra_info == IF Len(segment) = 3 THEN <<>> ELSE <<segment[4]>>
                  seg_path == <<stage, seg_name, "wav">>
                  extra_path == IF Truthy(extra_info) THEN <<stage, seg_name, "txt">> ELSE <<>>
                  wav == <<Write(seg_path, PySlice(original_data, start, end))>>
                  txt == IF Truthy(extra_info) THEN <<Write(extra_path, extra_info)>> ELSE <<>>
              IN  SegmentLoop(path, Tail(segs),
                              [acc EXCEPT !.writes = @ \o wav \o txt,
                                          !.emitted = Append(@, EmitList(<<seg_path, extra_path>>))])

SplitSegments_run(path, segs) ==
    IF ~HasExt(path, "wav")
    THEN Result([valid |-> FALSE,
                 log |-> <<Starting(path),
                           LogEntry("ERROR", "invalid",
                                    <<"Failed">> \o path \o <<"Not", "wav", "file">>)>>],
                out)
    ELSE Result(SegmentLoop(path, segs,
                            [reads |-> 1, mapcalls |-> 1, log |-> <<Starting(path)>>,
                             writes |-> <<>>, emitted |-> <<>>]),
                out)

(***************************************************************************)
(* KaldiASR.setup, KaldiASR.run                                            *)
(***************************************************************************)
NL == "\n"

BS == "\\"

\* the characters of the recognizer's stderr
ErrChars == {"U", "E", " ", "n", NL, BS}

\* str(err) of a bytes object: b'...' with newline and backslash escaped
BytesStr(bytes) ==
    <<"b", "'">>
    \o Flatten([k \in 1..Len(bytes) |->
                   IF bytes[k] = NL THEN <<BS, "n">>
                   ELSE IF bytes[k] = BS THEN <<BS, BS>>
                   ELSE <<bytes[k]>>])
    \o <<"'">>

\* .replace("\\n", "\n"): backslash n becomes a newline, left to right
RECURSIVE ReplaceNL(_)
ReplaceNL(s) ==
    IF Len(s) < 2 THEN s
    ELSE IF s[1] = BS /\ s[2] = "n" THEN <<NL>> \o ReplaceNL(Drop(s, 2))
    ELSE <<s[1]>> \o ReplaceNL(Tail(s))

\* the lines of a text: the pieces between its newlines
RECURSIVE SplitLines(_, _)
SplitLines(s, line) ==
    IF s = <<>> THEN <<line>>
    ELSE IF Head(s) = NL THEN <<line>> \o SplitLines(Tail(s), <<>>)
    ELSE SplitLines(Tail(s), Append(line, Head(s)))

\* re.compile("^<marker> (.*)$", re.MULTILINE).findall(text): group 1 of every line
\* that starts with the marker and a space
FindAll(marker, text) ==
    LET lines == SplitLines(text, <<>>)
        hits == SelectSeq(lines, LAMBDA l : StartsWith(l, <<marker, " ">>))
    IN  [k \in 1..Len(hits) |-> Drop(hits[k], 2)]

\* "\n\t".join(lines)
RECURSIVE JoinLines(_)
JoinLines(lines) ==
    IF lines = <<>> THEN <<>>
    ELSE IF Len(lines) = 1 THEN lines[1]
    ELSE lines[1] \o <<NL, "\t">> \o JoinLines(Tail(lines))

\* self.cmd with the input's absolute path in place of **in_placeholder**
KaldiCmd(path) ==
    <<"KALDI_HOME/src/online2bin/online2-wav-nnet3-latgen-faster",
      "--online=false", "--do-endpointing=false", "--frame-subsampling-factor=3",
      "--max-active=7000", "--beam=15.0", "--lattice-beam=6.0", "--acoustic-scale=1.0",
      "'ark:echo", "utterance-id1", "utterance-id1|'", "'scp:echo", "utterance-id1">>
    \o AbsPath(path) \o <<"|'", "'ark:/dev/null'">>

KaldiASR_run(path, res) ==
    LET out_file == derive_new_file_path(path, "txt")
        cmd == KaldiCmd(path)
        text == ReplaceNL(BytesStr(err))
        found == FindAll("U", text)
        error_lines == FindAll("E", text)
    IN  IF should_run(in_mtime, out)
        THEN IF res = 0
             THEN IF found = <<>>
                  \* self.regex.search(...) is None: .group(1) raises AttributeError
                  THEN Result([outcome |-> "raised", gate |-> "run",
                               calls |-> <<Call(cmd, res)>>,
                               log |-> <<Starting(path)>>],
                              out)
                  ELSE Result([gate |-> "run", calls |-> <<Call(cmd, res)>>,
                               writes |-> <<Write(out_file, found[1])>>,
                               log |-> <<Starting(path), Done(path, out_file)>>,
                               emitted |-> <<EmitList(<<out_file>>)>>],
                              [exists |-> TRUE, mtime |-> clock, bytes |-> found[1], by |-> "ok"])
             ELSE Result([gate |-> "run", calls |-> <<Call(cmd, res)>>,
                          log |-> <<Starting(path),
                                    LogEntry("ERROR", "toolfail",
                                             <<"Failed">> \o path \o <<"->">> \o out_file
                                             \o <<"with", "error", "code", IntStr(res), "cmd:">>
                                             \o cmd \o <<"Error", "message:">>
                                             \o JoinLines(error_lines))>>],
                         out)
        ELSE Result([gate |-> "skip", log |-> <<Starting(path)>>,
                     emitted |-> <<EmitList(<<out_file>>)>>],
                    out)

(***************************************************************************)
(* The state machine.                                                      *)
(***************************************************************************)
Init ==
    /\ stage \in Stages
    /\ in_file \in Inputs
    /\ in_mtime = 0
    /\ out = NoFile
    /\ clock = 0
    /\ runs = 0
    /\ changed = FALSE
    /\ err \in (IF stage = "KaldiASR" THEN SeqsUpTo(ErrChars, MaxErrLen) ELSE {<<>>})
    /\ segments \in (IF stage = "SplitSegments" THEN SeqsUpTo(Descriptors, MaxSegments) ELSE {<<>>})
    /\ last = NoRun

\* a call of run() that did r
Ran(r) ==
    /\ runs < MaxRuns
    /\ last' = r.obs
    /\ out' = r.out
    /\ runs' = runs + 1
    /\ changed' = FALSE
    /\ UNCHANGED <<stage, in_file, in_mtime, clock, err, segments>>

Mp3ToWavRun ==
    stage = "Mp3ToWav" /\ \E tool \in ToolOutcomes : Ran(Mp3ToWav_run(in_file, tool))

ResampleWavRun ==
    stage = "ResampleWav" /\ \E tool \in ToolOutcomes : Ran(ResampleWav_run(in_file, tool))

ShellCommandRun ==
    stage = "ShellCommand" /\ \E tool \in ToolOutcomes : Ran(ShellCommand_run(in_file, tool))

OpenSmileRunnerRun ==
    stage = "OpenSmileRunner" /\ \E tool \in ToolOutcomes : Ran(OpenSmileRunner_run(in_file, tool))

PraatRunnerRun ==
    stage = "PraatRunner" /\ \E tool \in ToolOutcomes : Ran(PraatRunner_run(in_file, tool))

KaldiASRRun ==
    stage = "KaldiASR" /\ \E res \in Statuses : Ran(KaldiASR_run(in_file, res))

SplitSegmentsRun ==
    stage = "SplitSegments" /\ Ran(SplitSegments_run(in_file, segments))

\* the input file is rewritten: its modification time is now
ModifyInput ==
    /\ clock < MaxClock
    /\ clock' = clock + 1
    /\ in_mtime' = clock + 1
    /\ changed' = TRUE
    /\ UNCHANGED <<stage, in_file, out, runs, err, segments, last>>

\* the output file is removed
RemoveOutput ==
    /\ out.exists
    /\ out' = NoFile
    /\ changed' = TRUE
    /\ UNCHANGED <<stage, in_file, in_mtime, clock, runs, err, segments, last>>

Next ==
    \/ Mp3ToWavRun
    \/ ResampleWavRun
    \/ ShellCommandRun
    \/ OpenSmileRunnerRun
    \/ PraatRunnerRun
    \/ KaldiASRRun
    \/ SplitSegmentsRun
    \/ ModifyInput
    \/ RemoveOutput

Spec == Init /\ [][Next]_vars

(***************************************************************************)
(* What the last run did, read from `last`.                                *)
(***************************************************************************)
Entries(kind) == SelectSeq(last.log, LAMBDA e : e.kind = kind)

ErrorEntries == SelectSeq(last.log, LAMBDA e : e.level = "ERROR")

\* the extension a node requires of its input, "" when it requires none
RequiredExt(s) ==
    CASE s = "Mp3ToWav" -> "mp3"
      [] s \in {"ResampleWav", "SplitSegments"} -> "wav"
      [] OTHER -> ""

InputValid == RequiredExt(stage) = "" \/ HasExt(in_file, RequiredExt(stage))

\* the extension a tool-backed node declares for its output
DeclaredExt(s) ==
    CASE s \in {"Mp3ToWav", "ResampleWav"} -> "wav"
      [] s = "ShellCommand" -> ext
      [] s = "OpenSmileRunner" -> out_ext
      [] s = "PraatRunner" -> "csv"
      [] s = "KaldiASR" -> "txt"

ToolFailed == last.calls # <<>> /\ last.calls[1].res # 0

ToolSucceeded == last.calls # <<>> /\ last.calls[1].res = 0

(***************************************************************************)
(* The claims.                                                             *)
(***************************************************************************)

\* C3: a run of Mp3ToWav, ResampleWav or SplitSegments on an input without
\* the required extension returns normally, emits nothing, logs exactly one
\* validation failure, and invokes no tool, reads no waveform, calls no
\* segment mapping and writes no file.
C3_InvalidInputStops ==
    (last.ran /\ RequiredExt(stage) # "" /\ ~HasExt(in_file, RequiredExt(stage)))
        => /\ last.outcome = "returned"
           /\ last.emitted = <<>>
           /\ Len(Entries("invalid")) = 1
           /\ Len(ErrorEntries) = 1
           /\ last.calls = <<>>
           /\ last.reads = 0
           /\ last.mapcalls = 0
           /\ last.writes = <<>>
           /\ ~out.exists

C3_Witness ==
    /\ last.ran
    /\ stage = "Mp3ToWav"
    /\ ~HasExt(in_file, "mp3")
    /\ Len(Entries("invalid")) = 1

\* C4: when a run of a tool-backed node returned and emitted, and neither the
\* input nor the output was changed since, the next run invokes no tool,
\* leaves the output file as it is and emits what the first run emitted.
C4_SecondRunIdempotent ==
    [][(/\ stage \in ToolStages
        /\ runs' = runs + 1
        /\ last.ran /\ last.outcome = "returned" /\ last.emitted # <<>>
        /\ ~changed)
           => /\ last'.calls = <<>>
              /\ out' = out
              /\ last'.emitted = last.emitted]_vars

C4_Witness ==
    /\ stage = "ResampleWav"
    /\ runs = 2
    /\ clock = 0
    /\ out.exists /\ out.by = "ok"
    /\ last.gate = "skip"
    /\ last.calls = <<>>
    /\ last.emitted # <<>>

\* C5: a run of a tool-backed node that returns emits at most once; it emits
\* exactly when the input was valid and either the gate said skip (and no
\* tool was invoked) or the tool was invoked and ended with status 0; what it
\* emits is the path derived from the input and the declared extension.
C5_EmitsExactlyOnSuccess ==
    (stage \in ToolStages /\ last.ran /\ last.outcome = "returned")
        => /\ Len(last.emitted) <= 1
           /\ (last.emitted # <<>>)
                <=> (InputValid /\ ((last.gate = "skip" /\ last.calls = <<>>)
                                    \/ (last.gate = "run" /\ ToolSucceeded)))
           /\ (last.emitted # <<>>)
                => (last.emitted[1].paths = <<derive_new_file_path(in_file, DeclaredExt(stage))>>)

C5_Witness ==
    /\ stage = "ShellCommand"
    /\ last.ran /\ last.outcome = "returned"
    /\ last.gate = "run" /\ ToolSucceeded
    /\ Len(last.emitted) = 1

\* C6: when the gate said run and the tool ended with a nonzero status, the
\* run invoked the tool once, emitted nothing, logged one failure and no
\* success, and returned.
C6_ToolFailureStops ==
    (stage \in ToolStages /\ last.ran /\ last.gate = "run" /\ ToolFailed)
        => /\ Len(last.calls) = 1
           /\ last.emitted = <<>>
           /\ Len(ErrorEntries) = 1
           /\ Len(Entries("toolfail")) = 1
           /\ Entries("done") = <<>>
           /\ last.outcome = "returned"

C6_Witness ==
    /\ stage = "PraatRunner"
    /\ last.ran /\ last.gate = "run" /\ ToolFailed
    /\ Len(Entries("toolfail")) = 1

\* C7: the failure entry logged after a nonzero tool status holds the command
\* that was run and the status code.
C7_FailureLogHasCommand ==
    (stage \in ToolStages /\ last.ran /\ ToolFailed)
        => \A k \in 1..Len(ErrorEntries) :
              /\ Contains(ErrorEntries[k].msg, last.calls[1].cmd)
              /\ Contains(ErrorEntries[k].msg, <<IntStr(last.calls[1].res)>>)

\* what a run of SplitSegments writes and emits for a list of segments when
\* every segment with a fourth element gets its sidecar
SidecarPath(segment) == IF Len(segment) = 4 THEN <<stage, segment[3], "txt">> ELSE <<>>

ExpectedWrites(segs) ==
    Flatten([k \in 1..Len(segs) |->
                <<Write(<<stage, segs[k][3], "wav">>,
                        PySlice(original_data, segs[k][1], segs[k][2]))>>
                \o (IF Len(segs[k]) = 4
                    THEN <<Write(SidecarPath(segs[k]), <<segs[k][4]>>)>>
                    ELSE <<>>)])

ExpectedEmitted(segs) ==
    [k \in 1..Len(segs) |-> EmitList(<<<<stage, segs[k][3], "wav">>, SidecarPath(segs[k])>>)]

AllArityOk(segs) == \A k \in 1..Len(segs) : Len(segs[k]) \in {3, 4}

SplitRan == stage = "SplitSegments" /\ last.ran /\ HasExt(in_file, "wav")

\* C1: when the list of segments holds a descriptor whose length is not 3 or
\* 4, at any position, the run of SplitSegments writes no wav, writes no
\* sidecar and emits nothing.
C1_BadArityWritesNothing ==
    (SplitRan /\ ~AllArityOk(segments))
        => (last.writes = <<>> /\ last.emitted = <<>>)

\* C2: when every descriptor has length 3 or 4, the run writes for each one a
\* wav holding original_data[start:end] named from its name, writes a sidecar
\* txt holding the annotation exactly when the descriptor has a fourth
\* element, whatever the annotation, and emits the wav path with the sidecar
\* path exactly when the sidecar was written.
C2_OneWavPerDescriptor ==
    (SplitRan /\ AllArityOk(segments))
        => /\ last.writes = ExpectedWrites(segments)
           /\ last.emitted = ExpectedEmitted(segments)

\* the recognizer's stderr as it was written: its hypothesis text and its
\* error lines
HypothesisLines == FindAll("U", err)

ErrorLines == FindAll("E", err)

KaldiWorked == stage = "KaldiASR" /\ last.ran /\ last.gate = "run" /\ last.calls # <<>>

KaldiOutFile == derive_new_file_path(in_file, "txt")

\* C8: when the gate said run, a recognizer that exits 0 with a hypothesis
\* line in its stderr has the hypothesis text written to the derived txt
\* file, which is emitted; a recognizer that exits nonzero has nothing
\* written and nothing emitted, and one failure entry that carries all error
\* lines of the stderr, joined.
C8_RecognitionOutcome ==
    KaldiWorked
        => /\ (ToolSucceeded /\ HypothesisLines # <<>>)
                => /\ last.outcome = "returned"
                   /\ last.writes = <<Write(KaldiOutFile, HypothesisLines[1])>>
                   /\ last.emitted = <<EmitList(<<KaldiOutFile>>)>>
           /\ ToolFailed
                => /\ last.writes = <<>>
                   /\ last.emitted = <<>>
                   /\ Len(ErrorEntries) = 1
                   /\ EndsWith(ErrorEntries[1].msg,
                               <<"Error", "message:">> \o JoinLines(ErrorLines))

\* C9: when the recognizer exits 0 and its stderr holds no hypothesis line,
\* the run raises, writes no output and emits nothing, and the gate still
\* says run for the same input.
C9_ParseFailureRaises ==
    (KaldiWorked /\ ToolSucceeded /\ HypothesisLines = <<>>)
        => /\ last.outcome = "raised"
           /\ last.writes = <<>>
           /\ last.emitted = <<>>
           /\ ~changed => should_run(in_mtime, out)

\* C10: a tool-backed node emits an output file only if a tool invocation
\* that ended with status 0 wrote it.
C10_EmittedOnlyAfterSuccess ==
    (stage \in ToolStages /\ last.ran /\ last.emitted # <<>> /\ ~changed)
        => (out.exists /\ out.by = "ok")

====
